---- MODULE Spec2Model ----
(***************************************************************************)
(* Privacy-policy generation service (privacy-policy-chatbot/main.py):     *)
(* module start-up, the two Flask routes and the prompt builder.           *)
(*                                                                         *)
(* Python values are written as strings: None is the string "<None>",     *)
(* text is itself.  A JSON object is a function from the keys it holds to  *)
(* their values; a text built by concatenation whose parts a claim looks   *)
(* at (the prompt) is the sequence of its parts.                           *)
(***************************************************************************)
EXTENDS Naturals, Sequences, FiniteSets, TLC

VARIABLES
    launch,             \* "script": python main.py; "imported": app served by a WSGI host
    spc,                \* position of the module-level start-up code
    GEMINI_API_KEY,     \* main.py:14
    gemini_configured,  \* main.py:20,24,28
    model,              \* main.py:33,36,40
    listening,          \* app.run(host='127.0.0.1', port=5000) was entered
    log,                \* start-up diagnostics printed so far
    pc,                 \* per request: position in its handler
    route,              \* per request: the route it was dispatched to
    body,               \* per request: content type and payload as sent
    data,               \* per request: local `data` of generate_policy
    prompt,             \* per request: local `prompt`
    response,           \* per request: local `response` (may stay unbound)
    exc,                \* per request: the exception `e` caught at line 136
    reply,              \* per request: the HTTP response sent
    calls,              \* per request: invocations of model.generate_content
    sent,               \* per request: number of HTTP responses sent
    escaped             \* per request: exception that left generate_policy

config == <<GEMINI_API_KEY, gemini_configured, model>>
startup == <<launch, spc, GEMINI_API_KEY, gemini_configured, model, listening, log>>
locals == <<route, body, data, prompt, response, exc, reply, calls, sent, escaped>>
vars == <<launch, spc, GEMINI_API_KEY, gemini_configured, model, listening, log,
          pc, route, body, data, prompt, response, exc, reply, calls, sent, escaped>>

\* Number of request threads that can be in flight together (SpecConc).
NumReq == 2
Req == 1..NumReq

None == "<None>"
ModelName == "gemini-1.5-flash"
ApiKey == "AIza-key"

\* Python truthiness of a text or None.
Truthy(v) == v # "" /\ v # None

(***************************************************************************)
(* Request fields                                                          *)
(***************************************************************************)
required_fields ==
    <<"company_name", "website_url", "data_collected", "data_usage", "contact_email">>

Required == {required_fields[i] : i \in 1..Len(required_fields)}
Optional == {"data_sharing", "security_measures", "user_rights", "cookie_usage"}
AllFields == Required \cup Optional \cup {"jurisdiction"}

\* The values test_client.py sends, and one jurisdiction.
Sample ==
    [f \in AllFields |->
        CASE f = "company_name"      -> "My Test App"
          [] f = "website_url"       -> "https://test.com"
          [] f = "data_collected"    -> "Emails, Names"
          [] f = "data_usage"        -> "Sending newsletters"
          [] f = "contact_email"     -> "privacy@test.com"
          [] f = "data_sharing"      -> "None"
          [] f = "security_measures" -> "Standard"
          [] f = "user_rights"       -> "Access, Deletion"
          [] f = "cookie_usage"      -> "Only essential"
          [] f = "jurisdiction"      -> "EU"]

Choices == {"absent", "empty", "value"}

\* The JSON object in which each field is absent, "" or its sample value.
Details(c) ==
    [f \in {g \in AllFields : c[g] # "absent"} |->
        IF c[f] = "empty" THEN "" ELSE Sample[f]]

\* Every such object: the inputs of create_privacy_policy_prompt.
AllDetails == {Details(c) : c \in [AllFields -> Choices]}

\* Objects sent to the endpoint: the optional free-text fields all sent (as
\* test_client.py does) or all left out.
SentDetails ==
    {Details(c) : c \in {d \in [AllFields -> Choices] :
        \A f \in Optional : d[f] = d["data_sharing"] /\ d[f] # "empty"}}

ObjectPayload(d) == [kind |-> "object", items |-> <<>>, fields |-> d]
OtherPayload(k, s) == [kind |-> k, items |-> s, fields |-> <<>>]
NoData == OtherPayload("unset", <<>>)

\* Payloads that are JSON but no object, and one that is no JSON at all.
NonObjectPayloads ==
    { OtherPayload("null", <<>>), OtherPayload("number", <<>>),
      OtherPayload("list", <<>>), OtherPayload("list", <<"company_name">>),
      OtherPayload("list", <<"hello">>) }
Malformed == OtherPayload("malformed", <<>>)

Payloads == {ObjectPayload(d) : d \in SentDetails} \cup NonObjectPayloads \cup {Malformed}
Bodies == [ctype : {"application/json"}, payload : Payloads]
            \cup [ctype : {"text/plain"}, payload : {Malformed, ObjectPayload(Details([f \in AllFields |-> "value"]))}]

(***************************************************************************)
(* create_privacy_policy_prompt (main.py:46-90)                            *)
(***************************************************************************)
\* details.get(key, default)
Get(details, key, default) == IF key \in DOMAIN details THEN details[key] ELSE default

Default ==
    [f \in AllFields |->
        CASE f = "company_name"      -> "Your Company"
          [] f = "website_url"       -> "Your Website/App URL"
          [] f = "data_collected"    -> "e.g., names, email addresses, IP addresses, cookies, usage data"
          [] f = "data_usage"        -> "e.g., service provision, personalization, analytics, marketing"
          [] f = "data_sharing"      -> "Specify if data is shared and with whom (e.g., analytics providers, payment processors)"
          [] f = "security_measures" -> "Describe general security practices (e.g., encryption, access controls)"
          [] f = "user_rights"       -> "Mention user rights like access, correction, deletion, opt-out"
          [] f = "cookie_usage"      -> "Explain if cookies are used and for what purpose"
          [] f = "contact_email"     -> "your privacy contact email"
          [] f = "jurisdiction"      -> ""]

\* The order of the "Service Details" lines 69-77 and their labels.
DetailOrder ==
    <<"company_name", "website_url", "data_collected", "data_usage", "data_sharing",
      "security_measures", "user_rights", "cookie_usage", "contact_email">>

Label ==
    [f \in AllFields |->
        CASE f = "company_name"      -> "*   **Company/Service Name:** "
          [] f = "website_url"       -> "*   **Website/App URL:** "
          [] f = "data_collected"    -> "*   **Types of Personal Data Collected:** "
          [] f = "data_usage"        -> "*   **How Data is Used:** "
          [] f = "data_sharing"      -> "*   **Data Sharing Practices (Third Parties):** "
          [] f = "security_measures" -> "*   **Data Security Measures:** "
          [] f = "user_rights"       -> "*   **User Rights (e.g., access, deletion):** "
          [] f = "cookie_usage"      -> "*   **Cookie Usage:** "
          [] f = "contact_email"     -> "*   **Contact Email for Privacy Concerns:** "
          [] f = "jurisdiction"      -> "*   **Primary Jurisdiction (if specified):** "]

Preamble ==
    << "Act as a helpful assistant specialized in drafting website and application documents.",
       "Generate a comprehensive draft privacy policy based on the following details provided by the user.",
       "The policy should be clear, easy for end-users to understand, and cover common requirements.",
       "Include sections like: Introduction, Information We Collect, How We Use Your Information, Sharing Your Information, Data Security, Your Rights and Choices, Cookie Policy, Changes to This Policy, and Contact Us.",
       "Emphasize that this is a generated template and should be reviewed by a legal professional before publishing.",
       "**Service Details:**" >>

JurisdictionSuffix ==
    " (Consider mentioning relevant laws like GDPR or CCPA if applicable, but advise legal review)"

Instructions ==
    << "**Instructions for Generation:**",
       "1.  Generate only the text content of the privacy policy.",
       "2.  Use clear headings for each section.",
       "3.  Maintain a professional but understandable tone.",
       "4.  Include a prominent disclaimer stating this is a template and requires legal review for compliance and accuracy specific to the user's situation and jurisdiction.",
       "5.  Do not add any conversational text before or after the policy itself (like \"Here is the policy:\" or \"I hope this helps!\")." >>

RECURSIVE DetailLines(_, _)
DetailLines(details, fs) ==
    IF fs = <<>> THEN <<>>
    ELSE <<Label[Head(fs)], Get(details, Head(fs), Default[Head(fs)])>>
            \o DetailLines(details, Tail(fs))

\* The line appended at main.py:79-80.
JurisdictionLine(jurisdiction) ==
    <<Label["jurisdiction"], jurisdiction, JurisdictionSuffix>>

\* Variant: the line is appended whenever the key was sent (`is not None`-style test).
create_privacy_policy_prompt_keyed(details) ==
    Preamble \o DetailLines(details, DetailOrder)
      \o (IF "jurisdiction" \in DOMAIN details
          THEN JurisdictionLine(details["jurisdiction"]) ELSE <<>>)
      \o Instructions

create_privacy_policy_prompt(details) ==
    LET jurisdiction == Get(details, "jurisdiction", Default["jurisdiction"])
    IN  Preamble \o DetailLines(details, DetailOrder)
          \o (IF Truthy(jurisdiction) THEN JurisdictionLine(jurisdiction) ELSE <<>>)
          \o Instructions

(***************************************************************************)
(* Field validation (main.py:108-111)                                      *)
(***************************************************************************)
\* `field in data`, for the payloads that support it.
Contains(d, field) ==
    CASE d.kind = "object" -> field \in DOMAIN d.fields
      [] d.kind = "list"   -> \E i \in 1..Len(d.items) : d.items[i] = field
      [] OTHER             -> FALSE

\* Line 109 raises TypeError: `in` on None or a number, or data[field] on a list.
RaisesTypeError(d) ==
    \/ d.kind \in {"null", "number"}
    \/ d.kind = "list" /\ \E i \in 1..Len(required_fields) : Contains(d, required_fields[i])

missing_fields(d) ==
    LET Missing(field) == ~Contains(d, field) \/ ~Truthy(d.fields[field])
    IN  SelectSeq(required_fields, Missing)

\* sep.join(names)
RECURSIVE Join(_, _)
Join(sep, names) ==
    IF names = <<>> THEN ""
    ELSE IF Len(names) = 1 THEN names[1]
    ELSE names[1] \o sep \o Join(sep, Tail(names))

(***************************************************************************)
(* HTTP responses                                                          *)
(***************************************************************************)
NoReply == [status |-> 0, ctype |-> "", json |-> <<>>, text |-> ""]

\* jsonify({key: value}), status
Jsonify(key, value, status) ==
    [status |-> status, ctype |-> "application/json", json |-> (key :> value), text |-> ""]

\* What Flask answers when an exception leaves the view function: the
\* HTTPException's own page, or 500 for any other exception.
FrameworkError(status, title) ==
    [status |-> status, ctype |-> "text/html", json |-> <<>>, text |-> title]

IndexText == "Privacy Policy Generator API is running. Use the /generate-policy endpoint (POST)."

(***************************************************************************)
(* Module start-up (main.py:14-42) and the __main__ block (main.py:155-169)*)
(***************************************************************************)
Unbound == [bound |-> FALSE, text |-> "", textRaises |-> "", feedback |-> "", feedbackRaises |-> FALSE]

Idle ==
    /\ pc = [r \in Req |-> "idle"]
    /\ route = [r \in Req |-> ""]
    /\ body = [r \in Req |-> [ctype |-> "", payload |-> NoData]]
    /\ data = [r \in Req |-> NoData]
    /\ prompt = [r \in Req |-> <<>>]
    /\ response = [r \in Req |-> Unbound]
    /\ exc = [r \in Req |-> ""]
    /\ reply = [r \in Req |-> NoReply]
    /\ calls = [r \in Req |-> 0]
    /\ sent = [r \in Req |-> 0]
    /\ escaped = [r \in Req |-> ""]

Init ==
    /\ launch \in {"script", "imported"}
    /\ spc = "getenv"
    /\ GEMINI_API_KEY = None
    /\ gemini_configured = FALSE
    /\ model = None
    /\ listening = FALSE
    /\ log = {}
    /\ Idle

\* main.py:14  GEMINI_API_KEY = os.getenv("GEMINI_API_KEY")
GetEnv ==
    /\ spc = "getenv"
    /\ GEMINI_API_KEY' \in {None, "", ApiKey}
    /\ spc' = "configure"
    /\ UNCHANGED <<launch, gemini_configured, model, listening, log, pc, locals>>

\* main.py:16-28; genai.configure either returns or raises, and a raise is caught.
Configure ==
    /\ spc = "configure"
    /\ IF ~Truthy(GEMINI_API_KEY)
       THEN /\ gemini_configured' = FALSE
            /\ log' = log \cup {"ERROR: GEMINI_API_KEY environment variable not found."}
       ELSE \E raised \in BOOLEAN :
            /\ gemini_configured' = ~raised
            /\ log' = log \cup {IF raised THEN "ERROR configuring Gemini API"
                                          ELSE "Gemini API Key configured successfully."}
    /\ spc' = "init_model"
    /\ UNCHANGED <<launch, GEMINI_API_KEY, model, listening, pc, locals>>

\* main.py:33-42; GenerativeModel either returns a handle or raises, and a raise is caught.
InitModel ==
    /\ spc = "init_model"
    /\ IF gemini_configured
       THEN \E raised \in BOOLEAN :
            /\ model' = IF raised THEN None ELSE ModelName
            /\ log' = log \cup {IF raised THEN "ERROR initializing Gemini model"
                                          ELSE "Initialized Gemini Model"}
       ELSE /\ model' = None
            /\ log' = log \cup {"Skipping Gemini model initialization due to missing API key."}
    /\ spc' = "main"
    /\ UNCHANGED <<launch, GEMINI_API_KEY, gemini_configured, listening, pc, locals>>

CannotStartNotConfigured == "Cannot start server: Gemini API is not configured. Check your .env file and API key."
CannotStartNoModel == "Cannot start server: Gemini model failed to initialize. Check logs."

\* Variant: the block tests only gemini_configured before app.run.
MainNoModelCheck ==
    /\ spc = "main"
    /\ IF launch = "script"
       THEN IF ~gemini_configured
            THEN /\ log' = log \cup {CannotStartNotConfigured}
                 /\ spc' = "exited"
                 /\ UNCHANGED listening
            ELSE /\ log' = log \cup {"Starting Flask server..."}
                 /\ spc' = "serving"
                 /\ listening' = TRUE
       ELSE /\ spc' = "serving"
            /\ UNCHANGED <<listening, log>>
    /\ UNCHANGED <<launch, GEMINI_API_KEY, gemini_configured, model, pc, locals>>

\* main.py:155-169.  Run as a script the block decides whether app.run is
\* entered; imported by a WSGI host or a test client the block is skipped and
\* the host serves `app` as it is.
Main ==
    /\ spc = "main"
    /\ IF launch = "script"
       THEN IF ~gemini_configured
            THEN /\ log' = log \cup {CannotStartNotConfigured}
                 /\ spc' = "exited"
                 /\ UNCHANGED listening
            ELSE IF ~Truthy(model)
            THEN /\ log' = log \cup {CannotStartNoModel}
                 /\ spc' = "exited"
                 /\ UNCHANGED listening
            ELSE /\ log' = log \cup {"Starting Flask server..."}
                 /\ spc' = "serving"
                 /\ listening' = TRUE
       ELSE /\ spc' = "serving"
            /\ UNCHANGED <<listening, log>>
    /\ UNCHANGED <<launch, GEMINI_API_KEY, gemini_configured, model, pc, locals>>

Startup == GetEnv \/ Configure \/ InitModel \/ Main

(***************************************************************************)
(* Request dispatch                                                        *)
(***************************************************************************)
\* A POST /generate-policy arrives and a handler thread starts on it.
ReceivePost(r, B) ==
    /\ spc = "serving"
    /\ pc[r] = "idle"
    /\ \E b \in B : body' = [body EXCEPT ![r] = b]
    /\ route' = [route EXCEPT ![r] = "POST /generate-policy"]
    /\ pc' = [pc EXCEPT ![r] = "check_model"]
    /\ UNCHANGED <<startup, data, prompt, response, exc, reply, calls, sent, escaped>>

\* A GET / arrives.
ReceiveGet(r) ==
    /\ spc = "serving"
    /\ pc[r] = "idle"
    /\ route' = [route EXCEPT ![r] = "GET /"]
    /\ pc' = [pc EXCEPT ![r] = "index"]
    /\ UNCHANGED <<startup, body, data, prompt, response, exc, reply, calls, sent, escaped>>

\* The view function returns `rep`: Flask sends it.
Return(r, rep) ==
    /\ reply' = [reply EXCEPT ![r] = rep]
    /\ sent' = [sent EXCEPT ![r] = @ + 1]
    /\ pc' = [pc EXCEPT ![r] = "done"]

\* An exception leaves the view function: Flask answers with its error page.
Escape(r, name, rep) ==
    /\ escaped' = [escaped EXCEPT ![r] = name]
    /\ Return(r, rep)

\* The response is out and the thread ends; its locals are gone.
Close(r) ==
    /\ pc[r] = "done"
    /\ pc' = [pc EXCEPT ![r] = "idle"]
    /\ route' = [route EXCEPT ![r] = ""]
    /\ body' = [body EXCEPT ![r] = [ctype |-> "", payload |-> NoData]]
    /\ data' = [data EXCEPT ![r] = NoData]
    /\ prompt' = [prompt EXCEPT ![r] = <<>>]
    /\ response' = [response EXCEPT ![r] = Unbound]
    /\ exc' = [exc EXCEPT ![r] = ""]
    /\ reply' = [reply EXCEPT ![r] = NoReply]
    /\ calls' = [calls EXCEPT ![r] = 0]
    /\ sent' = [sent EXCEPT ![r] = 0]
    /\ escaped' = [escaped EXCEPT ![r] = ""]
    /\ UNCHANGED startup

\* main.py:150-152
index(r) ==
    /\ pc[r] = "index"
    /\ Return(r, [status |-> 200, ctype |-> "text/html", json |-> <<>>, text |-> IndexText])
    /\ UNCHANGED <<startup, route, body, data, prompt, response, exc, calls, escaped>>

(***************************************************************************)
(* generate_policy (main.py:93-146), one action per statement              *)
(***************************************************************************)
NotInitialized == "Gemini model not initialized. Check API key and logs."
MustBeJson == "Request must be JSON"

Goto(r, label) == pc' = [pc EXCEPT ![r] = label]

\* Variant: readiness is read from gemini_configured instead of model.
CheckModelByFlag(r) ==
    /\ pc[r] = "check_model"
    /\ IF ~gemini_configured
       THEN Return(r, Jsonify("error", NotInitialized, 500))
       ELSE Goto(r, "is_json") /\ UNCHANGED <<reply, sent>>
    /\ UNCHANGED <<startup, route, body, data, prompt, response, exc, calls, escaped>>

\* main.py:98-99
CheckModel(r) ==
    /\ pc[r] = "check_model"
    /\ IF ~Truthy(model)
       THEN Return(r, Jsonify("error", NotInitialized, 500))
       ELSE Goto(r, "is_json") /\ UNCHANGED <<reply, sent>>
    /\ UNCHANGED <<startup, route, body, data, prompt, response, exc, calls, escaped>>

\* request.is_json: the content type names JSON; the payload is not looked at.
is_json(b) == b.ctype = "application/json"

\* main.py:102-103
CheckJson(r) ==
    /\ pc[r] = "is_json"
    /\ IF ~is_json(body[r])
       THEN Return(r, Jsonify("error", MustBeJson, 400))
       ELSE Goto(r, "get_json") /\ UNCHANGED <<reply, sent>>
    /\ UNCHANGED <<startup, route, body, data, prompt, response, exc, calls, escaped>>

\* main.py:105  request.get_json() raises BadRequest on a payload that does
\* not parse; nothing in generate_policy catches it.
GetJson(r) ==
    /\ pc[r] = "get_json"
    /\ IF body[r].payload.kind = "malformed"
       THEN /\ Escape(r, "BadRequest", FrameworkError(400, "400 Bad Request"))
            /\ UNCHANGED data
       ELSE /\ data' = [data EXCEPT ![r] = body[r].payload]
            /\ Goto(r, "validate")
            /\ UNCHANGED <<reply, sent, escaped>>
    /\ UNCHANGED <<startup, route, body, prompt, response, exc, calls>>

\* main.py:111
MissingReply(missing) ==
    Jsonify("error", "Missing required fields: " \o Join(", ", missing), 400)

\* main.py:108-111; a TypeError raised at line 109 is caught nowhere.
Validate(r) ==
    /\ pc[r] = "validate"
    /\ IF RaisesTypeError(data[r])
       THEN Escape(r, "TypeError", FrameworkError(500, "500 Internal Server Error"))
       ELSE IF missing_fields(data[r]) # <<>>
       THEN Return(r, MissingReply(missing_fields(data[r]))) /\ UNCHANGED escaped
       ELSE Goto(r, "prompt") /\ UNCHANGED <<reply, sent, escaped>>
    /\ UNCHANGED <<startup, route, body, data, prompt, response, exc, calls>>

\* main.py:114
BuildPrompt(r) ==
    /\ pc[r] = "prompt"
    /\ prompt' = [prompt EXCEPT ![r] = create_privacy_policy_prompt(data[r].fields)]
    /\ Goto(r, "generate_content")
    /\ UNCHANGED <<startup, route, body, data, response, exc, reply, calls, sent, escaped>>

\* What one call of model.generate_content can do: raise, return a response
\* whose text reads, or return one whose .text raises (a blocked prompt), with
\* prompt feedback that is set, empty, or raises when read.
Returned(text, textRaises, feedback, feedbackRaises) ==
    [raised |-> "", bound |-> TRUE, text |-> text, textRaises |-> textRaises,
     feedback |-> feedback, feedbackRaises |-> feedbackRaises]

TextError == "The response.text quick accessor only works when the response contains a valid Part"

ProviderOutcomes ==
    { [raised |-> "503 The service is currently unavailable.", bound |-> FALSE, text |-> "",
       textRaises |-> "", feedback |-> "", feedbackRaises |-> FALSE],
      Returned("SAMPLE POLICY TEXT", "", "", FALSE),
      Returned("", TextError, "block_reason: SAFETY", FALSE),
      Returned("", TextError, "", FALSE),
      Returned("", TextError, "", TRUE) }

ResponseOf(o) ==
    [bound |-> o.bound, text |-> o.text, textRaises |-> o.textRaises,
     feedback |-> o.feedback, feedbackRaises |-> o.feedbackRaises]

\* Variant: a raised call is tried once more.
GenerateContentRetry(r) ==
    /\ pc[r] = "generate_content"
    /\ \E o \in ProviderOutcomes :
        /\ calls' = [calls EXCEPT ![r] = @ + 1]
        /\ IF o.raised # ""
           THEN /\ exc' = [exc EXCEPT ![r] = o.raised]
                /\ Goto(r, IF calls[r] = 0 THEN "generate_content" ELSE "except")
                /\ UNCHANGED response
           ELSE /\ response' = [response EXCEPT ![r] = ResponseOf(o)]
                /\ Goto(r, "text")
                /\ UNCHANGED exc
    /\ UNCHANGED <<startup, route, body, data, prompt, reply, sent, escaped>>

\* main.py:126; an exception goes to the handler at line 136 with `response` unbound.
GenerateContent(r) ==
    /\ pc[r] = "generate_content"
    /\ IF ~Truthy(model)
       THEN /\ exc' = [exc EXCEPT ![r] = "'NoneType' object has no attribute 'generate_content'"]
            /\ Goto(r, "except")
            /\ UNCHANGED <<response, calls>>
       ELSE \E o \in ProviderOutcomes :
            /\ calls' = [calls EXCEPT ![r] = @ + 1]
            /\ IF o.raised # ""
               THEN /\ exc' = [exc EXCEPT ![r] = o.raised]
                    /\ Goto(r, "except")
                    /\ UNCHANGED response
               ELSE /\ response' = [response EXCEPT ![r] = ResponseOf(o)]
                    /\ Goto(r, "text")
                    /\ UNCHANGED exc
    /\ UNCHANGED <<startup, route, body, data, prompt, reply, sent, escaped>>

\* Variant: the text is returned under another key.
PolicyReplyWrongKey(generated_policy) == Jsonify("policy", generated_policy, 200)

\* main.py:134
PolicyReply(generated_policy) == Jsonify("privacy_policy", generated_policy, 200)

\* main.py:131-134
ReadText(r) ==
    /\ pc[r] = "text"
    /\ IF response[r].textRaises # ""
       THEN /\ exc' = [exc EXCEPT ![r] = response[r].textRaises]
            /\ Goto(r, "except")
            /\ UNCHANGED <<reply, sent>>
       ELSE /\ Return(r, PolicyReply(response[r].text))
            /\ UNCHANGED exc
    /\ UNCHANGED <<startup, route, body, data, prompt, response, calls, escaped>>

\* Variant: the prompt feedback is never consulted.
ErrorReplyGeneric(resp, e) ==
    Jsonify("error", "An error occurred while generating the policy: " \o e, 500)

\* main.py:140-146: the feedback reply if `response` is bound and its
\* prompt_feedback reads and is truthy; any error in looking is swallowed by
\* the bare except, and the generic reply follows.
ErrorReply(resp, e) ==
    IF resp.bound /\ ~resp.feedbackRaises /\ Truthy(resp.feedback)
    THEN Jsonify("error",
            "Failed to generate policy. The prompt might have been blocked. Reason: " \o resp.feedback, 500)
    ELSE Jsonify("error", "An error occurred while generating the policy: " \o e, 500)

\* Variant: the handler drops the shared model handle after a failure.
ExceptResetsModel(r) ==
    /\ pc[r] = "except"
    /\ Return(r, Jsonify("error", "An error occurred while generating the policy: " \o exc[r], 500))
    /\ model' = None
    /\ UNCHANGED <<launch, spc, GEMINI_API_KEY, gemini_configured, listening, log>>
    /\ UNCHANGED <<route, body, data, prompt, response, exc, calls, escaped>>

\* main.py:136-146
Except(r) ==
    /\ pc[r] = "except"
    /\ Return(r, ErrorReply(response[r], exc[r]))
    /\ UNCHANGED <<startup, route, body, data, prompt, response, exc, calls, escaped>>

generate_policy(r) ==
    \/ CheckModel(r)
    \/ CheckJson(r)
    \/ GetJson(r)
    \/ Validate(r)
    \/ BuildPrompt(r)
    \/ GenerateContent(r)
    \/ ReadText(r)
    \/ Except(r)

(***************************************************************************)
(* Specifications                                                          *)
(***************************************************************************)
Serve(R, B) ==
    \E r \in R :
        \/ ReceivePost(r, B)
        \/ ReceiveGet(r)
        \/ index(r)
        \/ generate_policy(r)
        \/ Close(r)

\* One request at a time, every body.
Next == Startup \/ Serve({1}, Bodies)
Spec == Init /\ [][Next]_vars

\* Request threads side by side, one body of each kind.
FullDetails == Details([f \in AllFields |-> IF f = "jurisdiction" THEN "absent" ELSE "value"])
ConcBodies ==
    { [ctype |-> "application/json", payload |-> ObjectPayload(FullDetails)],
      [ctype |-> "application/json",
       payload |-> ObjectPayload([f \in DOMAIN FullDetails \ {"company_name"} |-> FullDetails[f]])],
      [ctype |-> "text/plain", payload |-> ObjectPayload(FullDetails)],
      [ctype |-> "application/json", payload |-> OtherPayload("null", <<>>)],
      [ctype |-> "application/json", payload |-> Malformed] }

NextConc == Startup \/ Serve(Req, ConcBodies)
SpecConc == Init /\ [][NextConc]_vars

\* create_privacy_policy_prompt called on every input: line 114 reached with
\* each object of AllDetails as `data`.
InitPrompt ==
    /\ launch = "imported"
    /\ spc = "serving"
    /\ GEMINI_API_KEY = ApiKey
    /\ gemini_configured = TRUE
    /\ model = ModelName
    /\ listening = FALSE
    /\ log = {}
    /\ \E d \in AllDetails :
        /\ pc = [r \in Req |-> IF r = 1 THEN "prompt" ELSE "idle"]
        /\ route = [r \in Req |-> IF r = 1 THEN "POST /generate-policy" ELSE ""]
        /\ body = [r \in Req |-> IF r = 1 THEN [ctype |-> "application/json", payload |-> ObjectPayload(d)]
                                          ELSE [ctype |-> "", payload |-> NoData]]
        /\ data = [r \in Req |-> IF r = 1 THEN ObjectPayload(d) ELSE NoData]
    /\ prompt = [r \in Req |-> <<>>]
    /\ response = [r \in Req |-> Unbound]
    /\ exc = [r \in Req |-> ""]
    /\ reply = [r \in Req |-> NoReply]
    /\ calls = [r \in Req |-> 0]
    /\ sent = [r \in Req |-> 0]
    /\ escaped = [r \in Req |-> ""]

NextPrompt == BuildPrompt(1)
SpecPrompt == InitPrompt /\ [][NextPrompt]_vars

(***************************************************************************)
(* Properties                                                              *)
(***************************************************************************)
Post == "POST /generate-policy"

\* Request r was a POST /generate-policy and has been answered.
Done(r) == pc[r] = "done" /\ route[r] = Post

\* The body was parsed as JSON: JSON content type and a payload that parses.
Parsed(b) == b.ctype = "application/json" /\ b.payload.kind # "malformed"

\* Field f is absent from the payload or holds an empty value.
AbsentOrEmpty(p, f) ==
    \/ p.kind # "object"
    \/ f \notin DOMAIN p.fields
    \/ p.fields[f] = ""

\* The absent or empty required fields, in required-field order.
AbsentOrEmptyFields(p) ==
    LET Test(f) == AbsentOrEmpty(p, f) IN SelectSeq(required_fields, Test)

\* All five required fields are present and non-empty in a JSON object.
Complete(b) == Parsed(b) /\ b.payload.kind = "object" /\ AbsentOrEmptyFields(b.payload) = <<>>

\* C1: a POST that reaches field validation (model present, body parsed as
\* JSON) with a required field absent or empty is answered 400 with an error
\* naming exactly those fields, in order, comma-separated, and the provider
\* is not called.
C1_MissingFieldsRejected ==
    \A r \in Req :
        (Done(r) /\ Truthy(model) /\ Parsed(body[r])
            /\ AbsentOrEmptyFields(body[r].payload) # <<>>)
        => /\ reply[r] = Jsonify("error",
                "Missing required fields: " \o Join(", ", AbsentOrEmptyFields(body[r].payload)), 400)
           /\ calls[r] = 0

\* C2: with the model present, a POST whose body is not valid JSON, or whose
\* content type is not JSON, is answered 400 {"error": "Request must be JSON"}.
C2_NonJsonRejected ==
    \A r \in Req :
        (Done(r) /\ Truthy(model) /\ ~Parsed(body[r]))
        => reply[r] = Jsonify("error", MustBeJson, 400)

\* C3: with no model handle every POST, whatever its body, stops at the model
\* check: it is answered 500 with the fixed "not initialized" error, the JSON
\* check and the validation are never reached, and the provider is not called.
C3_NoModelShortCircuit ==
    \A r \in Req :
        (route[r] = Post /\ ~Truthy(model))
        => /\ calls[r] = 0
           /\ pc[r] \in {"check_model", "done"}
           /\ pc[r] = "done" =>
                /\ reply[r] = Jsonify("error", NotInitialized, 500)
                /\ sent[r] = 1
                /\ escaped[r] = ""

C3_Witness ==
    \E r \in Req :
        /\ Done(r) /\ ~Truthy(model)
        /\ body[r].ctype = "application/json" /\ body[r].payload = Malformed
        /\ reply[r].status = 500

\* C4: no exception leaves generate_policy, and every answer that is not the
\* success answer is a JSON body with an `error` text.
C4_NothingEscapes ==
    \A r \in Req :
        Done(r)
        => /\ escaped[r] = ""
           /\ reply[r].ctype = "application/json"
           /\ reply[r].status # 200 => DOMAIN reply[r].json = {"error"}

\* C5: a failed provider step is answered 500; the error carries the prompt
\* feedback when a response object exists and its feedback reads and is
\* truthy, and otherwise the caught exception's description, the failure to
\* read the feedback being swallowed.
C5_ProviderFailure ==
    \A r \in Req :
        (Done(r) /\ exc[r] # "")
        => /\ reply[r].status = 500
           /\ reply[r].ctype = "application/json"
           /\ escaped[r] = ""
           /\ IF response[r].bound /\ ~response[r].feedbackRaises /\ response[r].feedback # ""
              THEN reply[r].json = ("error" :>
                     "Failed to generate policy. The prompt might have been blocked. Reason: "
                        \o response[r].feedback)
              ELSE reply[r].json = ("error" :>
                     "An error occurred while generating the policy: " \o exc[r])

C5_Witness ==
    \E r \in Req :
        /\ Done(r) /\ exc[r] # "" /\ ~response[r].bound
        /\ reply[r].json = ("error" :>
             "An error occurred while generating the policy: 503 The service is currently unavailable.")

C7_SuccessRoundTrip ==
    \A r \in Req :
        Done(r) =>
            LET success == /\ Truthy(model) /\ Complete(body[r])
                           /\ response[r].bound /\ response[r].textRaises = ""
            IN  /\ (reply[r].status = 200 \/ "privacy_policy" \in DOMAIN reply[r].json) <=> success
                /\ success => reply[r] = [status |-> 200, ctype |-> "application/json",
                                          json |-> ("privacy_policy" :> response[r].text),
                                          text |-> ""]

C7_Witness ==
    \E r \in Req :
        /\ Done(r) /\ reply[r].status = 200
        /\ reply[r].json = ("privacy_policy" :> "SAMPLE POLICY TEXT")

\* Where the "Primary Jurisdiction" label stands in a prompt.
JurisdictionAt(p) == {i \in 1..Len(p) : p[i] = Label["jurisdiction"]}

\* The prompt with its jurisdiction line taken out.
WithoutJurisdiction(p) ==
    IF JurisdictionAt(p) = {} THEN p
    ELSE LET i == CHOOSE j \in JurisdictionAt(p) : TRUE
         IN  SubSeq(p, 1, i - 1) \o SubSeq(p, i + 3, Len(p))

\* C8: the prompt holds the "Primary Jurisdiction" line, naming the supplied
\* jurisdiction and followed by the applicable-law remark, exactly when the
\* input has a non-empty jurisdiction; otherwise the label is nowhere in the
\* prompt; and without that line the prompt equals the prompt of the same
\* input with no jurisdiction.
C8_JurisdictionLine ==
    \A r \in Req :
        prompt[r] # <<>> =>
            LET d == data[r].fields
                p == prompt[r]
                given == "jurisdiction" \in DOMAIN d /\ d["jurisdiction"] # ""
            IN  /\ (JurisdictionAt(p) # {}) <=> given
                /\ given => /\ Cardinality(JurisdictionAt(p)) = 1
                            /\ \A i \in JurisdictionAt(p) :
                                 /\ i + 2 <= Len(p)
                                 /\ p[i + 1] = d["jurisdiction"]
                                 /\ p[i + 2] = JurisdictionSuffix
                /\ WithoutJurisdiction(p) =
                     create_privacy_policy_prompt([f \in DOMAIN d \ {"jurisdiction"} |-> d[f]])

C8_Witness ==
    \E r \in Req :
        /\ prompt[r] # <<>>
        /\ "jurisdiction" \in DOMAIN data[r].fields
        /\ data[r].fields["jurisdiction"] = "EU"
        /\ "company_name" \notin DOMAIN data[r].fields
        /\ JurisdictionAt(prompt[r]) # {}

\* C9: generate_content is invoked at most once per request: once when the
\* model is present and the body is a JSON object with the five required
\* fields non-empty, never otherwise, with no second call after a failure;
\* and each request gets exactly one response.
C9_AtMostOneCall ==
    \A r \in Req :
        /\ calls[r] <= 1
        /\ sent[r] <= 1
        /\ pc[r] = "done" => sent[r] = 1
        /\ pc[r] \in {"text", "except"} => calls[r] = 1
        /\ Done(r) => calls[r] = IF Truthy(model) /\ Complete(body[r]) THEN 1 ELSE 0

C9_Witness ==
    \E r \in Req :
        /\ Done(r) /\ exc[r] # "" /\ ~response[r].bound
        /\ calls[r] = 1 /\ sent[r] = 1 /\ reply[r].status = 500

\* C10: once start-up is over no step writes GEMINI_API_KEY, gemini_configured
\* or model, whatever the interleaving of the request threads; and two
\* answered requests with the same body and the same provider outcome have
\* the same answer.
C10_ConfigReadOnly ==
    /\ [][spc = "serving" => config' = config]_vars
    /\ [](\A r1, r2 \in Req :
            (Done(r1) /\ Done(r2) /\ body[r1] = body[r2]
                /\ response[r1] = response[r2] /\ exc[r1] = exc[r2])
            => reply[r1] = reply[r2])

C10_Witness ==
    \E r1, r2 \in Req :
        /\ r1 # r2 /\ Done(r1) /\ pc[r2] = "text"
        /\ exc[r1] # "" /\ reply[r1].status = 500
        /\ Truthy(model)

====
